---- MODULE Spec2Model ----
(***************************************************************************)
(* Model of fetch_rack_match.py: reconciliation of a CSV rack layout with  *)
(* the JSON payload of a rack reader.                                      *)
(*                                                                         *)
(* Strings are sequences of one-character strings, so that strip(),        *)
(* upper(), zfill() and the regular expression are computed rather than    *)
(* assumed.  A JSON document is a table of nodes (node 1 is the root).     *)
(***************************************************************************)
EXTENDS Integers, Sequences, FiniteSets, TLC

VARIABLES pc, raw, np_result, csv_rows, layout, backend, net, fetched,
          json_src, payload, stack, yielded, rack_id, wells, extract_err,
          stem, rows, written, warning, exc, exit_code

vars == <<pc, raw, np_result, csv_rows, layout, backend, net, fetched,
          json_src, payload, stack, yielded, rack_id, wells, extract_err,
          stem, rows, written, warning, exc, exit_code>>

(***************************************************************************)
(* Bounds                                                                  *)
(***************************************************************************)
MaxTokenLen == 4
MaxRows == 3
MaxItems == 3
MaxNodes == 5
MaxEntries == 2
MainMaxRows == 2
MainMaxItems == 3

(***************************************************************************)
(* Characters and strings                                                  *)
(***************************************************************************)
LowerChars ==
    << "a", "b", "c", "d", "e", "f", "g", "h", "i", "j", "k", "l",
       "m", "n", "o", "p", "q", "r", "s", "t", "u", "v", "w", "x",
       "y", "z" >>
UpperChars ==
    << "A", "B", "C", "D", "E", "F", "G", "H", "I", "J", "K", "L",
       "M", "N", "O", "P", "Q", "R", "S", "T", "U", "V", "W", "X",
       "Y", "Z" >>
DigitChars == {"0", "1", "2", "3", "4", "5", "6", "7", "8", "9"}
SpaceChars == {" "}

\* ASCII order of the characters used by the model (sorted() compares code points)
AsciiOrder ==
    << " ", ",", "-", ".", "0", "1", "2", "3", "4", "5", "6", "7",
       "8", "9", "A", "B", "C", "D", "E", "F", "G", "H", "I", "J",
       "K", "L", "M", "N", "O", "P", "Q", "R", "S", "T", "U", "V",
       "W", "X", "Y", "Z", "[", "]", "_", "a", "b", "c", "d", "e",
       "f", "g", "h", "i", "j", "k", "l", "m", "n", "o", "p", "q",
       "r", "s", "t", "u", "v", "w", "x", "y", "z", "{", "}" >>

Ord(c) == CHOOSE i \in 1..Len(AsciiOrder) : AsciiOrder[i] = c

IsUpperAZ(c) == \E i \in 1..Len(UpperChars) : UpperChars[i] = c

IsDigit(c) == c \in DigitChars

\* str.upper() on one character
UpperChar(c) ==
    IF \E i \in 1..Len(LowerChars) : LowerChars[i] = c
    THEN UpperChars[CHOOSE i \in 1..Len(LowerChars) : LowerChars[i] = c]
    ELSE c

\* str.upper()
Upper(s) == [i \in 1..Len(s) |-> UpperChar(s[i])]

\* str.strip(): drop leading and trailing white space
Strip(s) ==
    IF \A i \in 1..Len(s) : s[i] \in SpaceChars
    THEN <<>>
    ELSE LET first == CHOOSE i \in 1..Len(s) :
                          /\ s[i] \notin SpaceChars
                          /\ \A j \in 1..(i - 1) : s[j] \in SpaceChars
             last  == CHOOSE i \in 1..Len(s) :
                          /\ s[i] \notin SpaceChars
                          /\ \A j \in (i + 1)..Len(s) : s[j] \in SpaceChars
         IN  SubSeq(s, first, last)

\* str.zfill(2) on a string without sign
Zfill2(s) == IF Len(s) >= 2 THEN s
             ELSE IF Len(s) = 1 THEN <<"0">> \o s
             ELSE <<"0", "0">>

\* The ways re.fullmatch(r"([A-Z]+)0*(\d+)", token) can split the token:
\* <<i, j>> where token[1..i] is group 1, token[i+1..i+j] the zeros, the rest group 2
MatchSplits(token) ==
    { sp \in (1..Len(token)) \X (0..Len(token)) :
        /\ sp[1] + sp[2] < Len(token)
        /\ \A k \in 1..sp[1] : IsUpperAZ(token[k])
        /\ \A k \in (sp[1] + 1)..(sp[1] + sp[2]) : token[k] = "0"
        /\ \A k \in (sp[1] + sp[2] + 1)..Len(token) : IsDigit(token[k]) }

\* Greedy backtracking takes the longest group 1, then the longest run of zeros
GreedySplit(token) ==
    CHOOSE sp \in MatchSplits(token) :
        \A other \in MatchSplits(token) :
            \/ other[1] < sp[1]
            \/ (other[1] = sp[1] /\ other[2] <= sp[2])

normalize_position_no_upper(r) ==
    LET token == Strip(r)
    IN  IF MatchSplits(Upper(token)) = {}
        THEN token
        ELSE LET sp == GreedySplit(Upper(token))
                 row_letters   == SubSeq(token, 1, sp[1])
                 column_digits == SubSeq(token, sp[1] + sp[2] + 1, Len(token))
             IN  row_letters \o Zfill2(column_digits)

normalize_position(r) ==
    LET token == Upper(Strip(r))
    IN  IF MatchSplits(token) = {}
        THEN token
        ELSE LET sp == GreedySplit(token)
                 row_letters   == SubSeq(token, 1, sp[1])
                 column_digits == SubSeq(token, sp[1] + sp[2] + 1, Len(token))
             IN  row_letters \o Zfill2(column_digits)

(***************************************************************************)
(* read_layout: csv.reader hands over a sequence of rows, each a sequence  *)
(* of cells; a blank line is the empty row                                 *)
(***************************************************************************)
\* dict assignment d[k] = v
DictPut(d, k, v) == [x \in (DOMAIN d) \cup {k} |-> IF x = k THEN v ELSE d[x]]

LayoutError(e) == [ok |-> FALSE, err |-> e, entries |-> <<>>]

\* the for loop of read_layout from row idx on, and the check after it
RECURSIVE read_layout_rows(_, _, _, _)
read_layout_rows(csv, idx, entries, seen) ==
    IF idx > Len(csv)
    THEN IF entries = <<>> THEN LayoutError("no_usable_data")
         ELSE [ok |-> TRUE, err |-> "none", entries |-> entries]
    ELSE LET row == csv[idx]
         IN  IF row = <<>>
             THEN read_layout_rows(csv, idx + 1, entries, seen)
             ELSE IF Len(row) < 2
             THEN LayoutError("fewer_than_two_columns")
             ELSE LET position_raw == Strip(row[1])
                      sample_id    == Strip(row[2])
                      normalized   == normalize_position(position_raw)
                  IN  IF position_raw = <<>>
                      THEN LayoutError("missing_position")
                      ELSE IF normalized \in DOMAIN seen /\ seen[normalized] # sample_id
                      THEN LayoutError("duplicate_conflict")
                      ELSE read_layout_rows(csv, idx + 1,
                               Append(entries, <<normalized, sample_id>>),
                               DictPut(seen, normalized, sample_id))

EmptyDict == [x \in {} |-> <<>>]

read_layout(csv) == read_layout_rows(csv, 1, <<>>, EmptyDict)

(***************************************************************************)
(* fetch_payload: net[m] is what backend m does when it is called, "ok"    *)
(* or the exception it raises                                              *)
(***************************************************************************)
_resolve_backends(b) ==
    IF b = "auto" THEN <<"requests", "urllib", "curl">> ELSE <<b>>

\* exceptions _fetch_via_requests, _fetch_via_urllib and _fetch_via_curl raise
BackendFailures(m) ==
    CASE m = "requests" -> {"RuntimeError", "HTTPError"}
      [] m = "urllib"   -> {"ConnectionError", "JSONDecodeError"}
      [] m = "curl"     -> {"RuntimeError", "ConnectionError", "ValueError"}

RECURSIVE fetch_payload_loop_first_error(_, _, _, _, _)
fetch_payload_loop_first_error(methods, i, errors, calls, network) ==
    IF i > Len(methods)
    THEN IF errors # <<>>
         THEN [ok |-> FALSE, err |-> errors[1], calls |-> calls, by |-> "none"]
         ELSE [ok |-> FALSE, err |-> <<"none", "RuntimeError">>, calls |-> calls,
               by |-> "none"]
    ELSE LET method == methods[i]
         IN  IF network[method] = "ok"
             THEN [ok |-> TRUE, err |-> <<"none", "none">>,
                   calls |-> Append(calls, method), by |-> method]
             ELSE fetch_payload_loop_first_error(methods, i + 1,
                      Append(errors, <<method, network[method]>>),
                      Append(calls, method), network)

\* the for loop of fetch_payload from method i on, and the raise after it;
\* calls lists the backends invoked, by names the one whose payload is returned
RECURSIVE fetch_payload_loop(_, _, _, _, _)
fetch_payload_loop(methods, i, errors, calls, network) ==
    IF i > Len(methods)
    THEN IF errors # <<>>
         THEN [ok |-> FALSE, err |-> errors[Len(errors)], calls |-> calls,
               by |-> "none"]
         ELSE [ok |-> FALSE, err |-> <<"none", "RuntimeError">>, calls |-> calls,
               by |-> "none"]
    ELSE LET method == methods[i]
         IN  IF network[method] = "ok"
             THEN [ok |-> TRUE, err |-> <<"none", "none">>,
                   calls |-> Append(calls, method), by |-> method]
             ELSE fetch_payload_loop(methods, i + 1,
                      Append(errors, <<method, network[method]>>),
                      Append(calls, method), network)

fetch_payload(b, network) ==
    fetch_payload_loop(_resolve_backends(b), 1, <<>>, <<>>, network)


(***************************************************************************)
(* JSON documents: a sequence of nodes, node 1 the root; kids lists the    *)
(* members of a dict (key k, child c) or the elements of a list in order   *)
(***************************************************************************)
JNull    == [t |-> "null", s |-> <<>>, n |-> 0, b |-> FALSE, kids |-> <<>>]
JStr(x)  == [t |-> "str",  s |-> x,    n |-> 0, b |-> FALSE, kids |-> <<>>]
JNum(k)  == [t |-> "num",  s |-> <<>>, n |-> k, b |-> FALSE, kids |-> <<>>]
JBool(v) == [t |-> "bool", s |-> <<>>, n |-> 0, b |-> v,     kids |-> <<>>]
JDict    == [t |-> "dict", s |-> <<>>, n |-> 0, b |-> FALSE, kids |-> <<>>]
JList    == [t |-> "list", s |-> <<>>, n |-> 0, b |-> FALSE, kids |-> <<>>]

AddChild(tree, parent, key, node) ==
    Append([tree EXCEPT ![parent].kids = Append(@, [k |-> key, c |-> Len(tree) + 1])],
           node)

\* key in d
HasKey(tree, id, key) ==
    \E i \in 1..Len(tree[id].kids) : tree[id].kids[i].k = key

\* d.get(key): the node of the value, 0 for None
Get(tree, id, key) ==
    IF HasKey(tree, id, key)
    THEN tree[id].kids[CHOOSE i \in 1..Len(tree[id].kids) : tree[id].kids[i].k = key].c
    ELSE 0

\* d.values(), or the elements of a list
Values(tree, id) == [i \in 1..Len(tree[id].kids) |-> tree[id].kids[i].c]

\* bool(x), with 0 standing for None
Truthy(tree, id) ==
    IF id = 0 THEN FALSE
    ELSE CASE tree[id].t = "null" -> FALSE
           [] tree[id].t = "bool" -> tree[id].b
           [] tree[id].t = "num"  -> tree[id].n # 0
           [] tree[id].t = "str"  -> tree[id].s # <<>>
           [] OTHER               -> tree[id].kids # <<>>

\* x == k for an int k
EqualsInt(tree, id, k) ==
    /\ id # 0
    /\ \/ tree[id].t = "num" /\ tree[id].n = k
       \/ tree[id].t = "bool" /\ k = (IF tree[id].b THEN 1 ELSE 0)

DigitSeq == <<"0", "1", "2", "3", "4", "5", "6", "7", "8", "9">>

RECURSIVE Decimal(_)
Decimal(k) == IF k < 10 THEN <<DigitSeq[k + 1]>>
              ELSE Decimal(k \div 10) \o <<DigitSeq[(k % 10) + 1]>>

\* str(x) of a scalar
PyStr(tree, id) ==
    CASE tree[id].t = "str"  -> tree[id].s
      [] tree[id].t = "num"  -> Decimal(tree[id].n)
      [] tree[id].t = "bool" -> IF tree[id].b THEN <<"T", "r", "u", "e">>
                                ELSE <<"F", "a", "l", "s", "e">>
      [] tree[id].t = "null" -> <<"N", "o", "n", "e">>

(***************************************************************************)
(* iter_decode_items                                                       *)
(***************************************************************************)
\* the test of line 206
IsDecodeItem(tree, id) ==
    /\ tree[id].t = "dict"
    /\ HasKey(tree, id, "decode")
    /\ tree[Get(tree, id, "decode")].t = "dict"

\* the stack after one round of the while loop that does not descend into
\* the values of a decode item
WalkStack_skip_item(tree, stk) ==
    LET current == stk[Len(stk)]
        rest    == SubSeq(stk, 1, Len(stk) - 1)
    IN  IF tree[current].t \in {"dict", "list"} /\ ~IsDecodeItem(tree, current)
        THEN rest \o Values(tree, current)
        ELSE rest

\* the stack after one round of the while loop
WalkStack(tree, stk) ==
    LET current == stk[Len(stk)]
        rest    == SubSeq(stk, 1, Len(stk) - 1)
    IN  IF tree[current].t \in {"dict", "list"}
        THEN rest \o Values(tree, current)
        ELSE rest

\* what that round yields: <<current>> or nothing
WalkYield(tree, stk) ==
    LET current == stk[Len(stk)]
    IN  IF IsDecodeItem(tree, current) THEN <<current>> ELSE <<>>

(***************************************************************************)
(* extract_scanner_results: the body of the for loop for one item          *)
(***************************************************************************)
WellEntry(tree, decode, result) ==
    [result  |-> Strip(PyStr(tree, result)),
     hasTube |-> Truthy(tree, Get(tree, decode, "hasTube")),
     passed  |-> Truthy(tree, Get(tree, decode, "passed"))]

ExtractItem_last_rack(tree, item, st) ==
    LET item_type == Get(tree, item, "itemType")
        decode    == Get(tree, item, "decode")
        result    == Get(tree, decode, "result")
        id        == Get(tree, item, "id")
        position_raw == IF Truthy(tree, id) THEN Strip(PyStr(tree, id)) ELSE <<>>
    IN  IF ~Truthy(tree, result) THEN st
        ELSE IF EqualsInt(tree, item_type, 2)
        THEN [st EXCEPT !.rack_id = [set |-> TRUE, val |-> Strip(PyStr(tree, result))]]
        ELSE IF EqualsInt(tree, item_type, 1)
        THEN IF position_raw = <<>> THEN st
             ELSE [st EXCEPT !.wells = DictPut(@, normalize_position(position_raw),
                                               WellEntry(tree, decode, result))]
        ELSE st

ExtractItem_flags_true(tree, item, st) ==
    LET item_type == Get(tree, item, "itemType")
        decode    == Get(tree, item, "decode")
        result    == Get(tree, decode, "result")
        id        == Get(tree, item, "id")
        position_raw == IF Truthy(tree, id) THEN Strip(PyStr(tree, id)) ELSE <<>>
    IN  IF ~Truthy(tree, result) THEN st
        ELSE IF EqualsInt(tree, item_type, 2) /\ ~st.rack_id.set
        THEN [st EXCEPT !.rack_id = [set |-> TRUE, val |-> Strip(PyStr(tree, result))]]
        ELSE IF EqualsInt(tree, item_type, 1)
        THEN IF position_raw = <<>> THEN st
             ELSE [st EXCEPT !.wells = DictPut(@, normalize_position(position_raw),
                       [result  |-> Strip(PyStr(tree, result)),
                        hasTube |-> ~HasKey(tree, decode, "hasTube")
                                    \/ Truthy(tree, Get(tree, decode, "hasTube")),
                        passed  |-> ~HasKey(tree, decode, "passed")
                                    \/ Truthy(tree, Get(tree, decode, "passed"))])]
        ELSE st

\* st is [rack_id, wells]; decode is a dict here, so "decode or {}" has its keys
ExtractItem(tree, item, st) ==
    LET item_type == Get(tree, item, "itemType")
        decode    == Get(tree, item, "decode")
        result    == Get(tree, decode, "result")
        id        == Get(tree, item, "id")
        position_raw == IF Truthy(tree, id) THEN Strip(PyStr(tree, id)) ELSE <<>>
    IN  IF ~Truthy(tree, result) THEN st
        ELSE IF EqualsInt(tree, item_type, 2) /\ ~st.rack_id.set
        THEN [st EXCEPT !.rack_id = [set |-> TRUE, val |-> Strip(PyStr(tree, result))]]
        ELSE IF EqualsInt(tree, item_type, 1)
        THEN IF position_raw = <<>> THEN st
             ELSE [st EXCEPT !.wells = DictPut(@, normalize_position(position_raw),
                                               WellEntry(tree, decode, result))]
        ELSE st

(***************************************************************************)
(* build_output_rows                                                       *)
(***************************************************************************)
sEmpty         == <<"e", "m", "p", "t", "y">>
sDecodeFailed  == <<"d", "e", "c", "o", "d", "e", "_", "f", "a", "i", "l", "e", "d">>
sOk            == <<"o", "k">>
sNoScan        == <<"n", "o", "_", "s", "c", "a", "n">>

\* ",".join(parts)
RECURSIVE JoinComma(_)
JoinComma(parts) ==
    IF parts = <<>> THEN <<>>
    ELSE IF Len(parts) = 1 THEN parts[1]
    ELSE parts[1] \o <<",">> \o JoinComma(Tail(parts))

OutputRow_swapped(entry, scanner_data) ==
    LET position  == entry[1]
        sample_id == entry[2]
    IN  IF position \notin DOMAIN scanner_data
        THEN <<position, sample_id, <<>>, sNoScan>>
        ELSE LET scanner_entry == scanner_data[position]
                 status_flags ==
                     (IF ~scanner_entry.passed THEN <<sEmpty>> ELSE <<>>)
                     \o (IF ~scanner_entry.hasTube THEN <<sDecodeFailed>> ELSE <<>>)
                 status == IF status_flags # <<>> THEN JoinComma(status_flags)
                           ELSE sOk
             IN  <<position, sample_id, scanner_entry.result, status>>

\* the row appended for one layout entry (an entry of scanner_data is a
\* non-empty dict, so "not scanner_entry" is "position not in scanner_data")
OutputRow(entry, scanner_data) ==
    LET position  == entry[1]
        sample_id == entry[2]
    IN  IF position \notin DOMAIN scanner_data
        THEN <<position, sample_id, <<>>, sNoScan>>
        ELSE LET scanner_entry == scanner_data[position]
                 status_flags ==
                     (IF ~scanner_entry.hasTube THEN <<sEmpty>> ELSE <<>>)
                     \o (IF ~scanner_entry.passed THEN <<sDecodeFailed>> ELSE <<>>)
                 status == IF status_flags # <<>> THEN JoinComma(status_flags)
                           ELSE sOk
             IN  <<position, sample_id, scanner_entry.result, status>>

build_output_rows(entries, scanner_data) ==
    [i \in 1..Len(entries) |-> OutputRow(entries[i], scanner_data)]

(***************************************************************************)
(* sorted() of a set of strings                                            *)
(***************************************************************************)
\* a < b for str: the first differing code point decides, a proper prefix is less
StrLess(a, b) ==
    \/ /\ Len(a) < Len(b)
       /\ \A i \in 1..Len(a) : a[i] = b[i]
    \/ \E i \in 1..Len(a) :
          /\ i <= Len(b)
          /\ \A j \in 1..(i - 1) : a[j] = b[j]
          /\ Ord(a[i]) < Ord(b[i])

RECURSIVE sorted_descending(_)
sorted_descending(S) ==
    IF S = {} THEN <<>>
    ELSE LET hi == CHOOSE x \in S : \A y \in S \ {x} : StrLess(y, x)
         IN  <<hi>> \o sorted_descending(S \ {hi})

RECURSIVE sorted(_)
sorted(S) ==
    IF S = {} THEN <<>>
    ELSE LET lo == CHOOSE x \in S : \A y \in S \ {x} : StrLess(x, y)
         IN  <<lo>> \o sorted(S \ {lo})

(***************************************************************************)
(* Values of the variables a specification does not use                    *)
(***************************************************************************)
NoLayout  == [ok |-> FALSE, err |-> "none", entries |-> <<>>]
NoFetch   == [ok |-> FALSE, err |-> <<"none", "none">>, calls |-> <<>>, by |-> "none"]
NoRack    == [set |-> FALSE, val |-> <<>>]
NoWells   == [p \in {} |-> [result |-> <<>>, hasTube |-> FALSE, passed |-> FALSE]]
NoNet     == [m \in {} |-> "ok"]
NotWritten == [called |-> FALSE, header |-> <<>>, rows |-> <<>>]
NoWarning  == [emitted |-> FALSE, positions |-> <<>>]

IdleNormalize == raw = <<>> /\ np_result = <<>>
IdleLayout    == csv_rows = <<>> /\ layout = NoLayout
IdleFetch     == backend = "auto" /\ net = NoNet /\ fetched = NoFetch /\ json_src = "none"
IdleExtract   == /\ payload = <<>> /\ stack = <<>> /\ yielded = <<>>
                 /\ rack_id = NoRack /\ wells = NoWells /\ extract_err = "none"
IdleMain      == /\ stem = <<>> /\ rows = <<>> /\ written = NotWritten
                 /\ warning = NoWarning /\ exc = "none" /\ exit_code = -1

normalizeVars == <<raw, np_result>>
layoutVars    == <<csv_rows, layout>>
fetchVars     == <<backend, net, fetched, json_src>>
extractVars   == <<payload, stack, yielded, rack_id, wells, extract_err>>
mainVars      == <<stem, rows, written, warning, exc, exit_code>>

(***************************************************************************)
(* normalize_position applied to every token of the alphabet               *)
(***************************************************************************)
TokenAlphabet == {"a", "A", "H", "0", "1", "2", " ", "-"}

Tokens == UNION { [1..n -> TokenAlphabet] : n \in 0..MaxTokenLen }

InitNormalize ==
    /\ pc = "normalize"
    /\ raw \in Tokens
    /\ np_result = <<>>
    /\ IdleLayout /\ IdleFetch /\ IdleExtract /\ IdleMain

Normalize ==
    /\ pc = "normalize"
    /\ np_result' = normalize_position(raw)
    /\ pc' = "normalized"
    /\ UNCHANGED <<raw, layoutVars, fetchVars, extractVars, mainVars>>

NextNormalize == Normalize

SpecNormalize == InitNormalize /\ [][NextNormalize]_vars

(***************************************************************************)
(* read_layout applied to bounded CSV files                                *)
(***************************************************************************)
sA1  == <<"A", "1">>
sa01 == <<"a", "0", "1">>
sA01 == <<"A", "0", "1">>
sA02 == <<"A", "0", "2">>
sB02 == <<"B", "0", "2">>
sb2  == <<"b", "2">>
sS1  == <<"S", "1">>
sS2  == <<"S", "2">>

LayoutRows ==
    { <<>>,                         \* blank line
      <<sA1>>,                      \* one column
      <<<<" ">>, sS1>>,             \* no position
      <<sA1, sS1>>,
      <<sA01, <<" ">> \o sS1>>,
      <<sa01, sS2>>,
      <<sb2, sS2>>,
      <<sA02, sS2, sS1>> }

CsvFiles(rowset, n) == UNION { [1..k -> rowset] : k \in 0..n }

InitLayout ==
    /\ pc = "read_layout"
    /\ csv_rows \in CsvFiles(LayoutRows, MaxRows)
    /\ layout = NoLayout
    /\ IdleNormalize /\ IdleFetch /\ IdleExtract /\ IdleMain

ReadLayout ==
    /\ pc = "read_layout"
    /\ layout' = read_layout(csv_rows)
    /\ pc' = "layout_read"
    /\ UNCHANGED <<csv_rows, normalizeVars, fetchVars, extractVars, mainVars>>

NextLayout == ReadLayout

SpecLayout == InitLayout /\ [][NextLayout]_vars

(***************************************************************************)
(* fetch_payload under every behaviour of the three backends               *)
(***************************************************************************)
Backends == {"requests", "urllib", "curl"}

Networks ==
    { f \in [Backends -> {"ok", "RuntimeError", "HTTPError", "ConnectionError",
                          "JSONDecodeError", "ValueError"}] :
        \A m \in Backends : f[m] = "ok" \/ f[m] \in BackendFailures(m) }

InitFetch ==
    /\ pc = "fetch_payload"
    /\ backend \in {"auto"} \cup Backends
    /\ net \in Networks
    /\ fetched = NoFetch
    /\ json_src = "none"
    /\ IdleNormalize /\ IdleLayout /\ IdleExtract /\ IdleMain

FetchPayload ==
    /\ pc = "fetch_payload"
    /\ fetched' = fetch_payload(backend, net)
    /\ pc' = "fetched"
    /\ UNCHANGED <<backend, net, json_src, normalizeVars, layoutVars, extractVars,
                   mainVars>>

NextFetch == FetchPayload

SpecFetch == InitFetch /\ [][NextFetch]_vars

(***************************************************************************)
(* Payloads: a list of items, bare or under the key "a" of a dict          *)
(***************************************************************************)
sR1   == <<"R", "1">>
sR2   == <<"R", "2">>
sALT1 == <<"A", "L", "T", "1">>
sALT2 == <<"A", "L", "T", "2">>
sA3   == <<"A", "3">>

\* an optional member: <<>> when the key is absent, <<value>> when present
AddOptional(tree, parent, key, opt) ==
    IF opt = <<>> THEN tree ELSE AddChild(tree, parent, key, opt[1])

\* {"decode": {"result":..,"hasTube":..,"passed":..}, "itemType":.., "id":..}
AddItem(tree, parent, spec) ==
    LET t1   == AddChild(tree, parent, "", JDict)
        item == Len(t1)
    IN  IF spec.kind = "plain"
        THEN AddChild(t1, item, "foo", JNum(1))
        ELSE LET t2     == AddChild(t1, item, "decode", JDict)
                 decode == Len(t2)
                 t3     == AddOptional(t2, decode, "result", spec.result)
                 t4     == AddOptional(t3, decode, "hasTube", spec.hasTube)
                 t5     == AddOptional(t4, decode, "passed", spec.passed)
                 t6     == AddOptional(t5, item, "itemType", spec.itemType)
             IN  AddOptional(t6, item, "id", spec.id)

RECURSIVE AddItems(_, _, _)
AddItems(tree, parent, specs) ==
    IF specs = <<>> THEN tree
    ELSE AddItems(AddItem(tree, parent, Head(specs)), parent, Tail(specs))

PayloadOf(wrapper, specs) ==
    IF wrapper = "list"
    THEN AddItems(<<JList>>, 1, specs)
    ELSE AddItems(AddChild(<<JDict>>, 1, "a", JList), 2, specs)

ItemSpec(itemType, id, result, hasTube, passed) ==
    [kind |-> "item", itemType |-> itemType, id |-> id, result |-> result,
     hasTube |-> hasTube, passed |-> passed]

RackItem(result) == ItemSpec(<<JNum(2)>>, <<>>, result, <<>>, <<>>)
WellItem(id, result, hasTube, passed) ==
    ItemSpec(<<JNum(1)>>, id, result, hasTube, passed)
PlainItem == [kind |-> "plain", itemType |-> <<>>, id |-> <<>>, result |-> <<>>,
              hasTube |-> <<>>, passed |-> <<>>]

Yes == <<JBool(TRUE)>>
No  == <<JBool(FALSE)>>

ExtractItemSpecs ==
    { RackItem(<<JStr(<<>>)>>),
      RackItem(<<JStr(<<" ">> \o sALT1)>>),
      RackItem(<<JStr(sALT2)>>),
      WellItem(<<JStr(sb2)>>, <<JStr(sR1 \o <<" ">>)>>, Yes, Yes),
      WellItem(<<JStr(sB02)>>, <<JStr(sR2)>>, <<>>, <<>>),
      WellItem(<<JStr(sA3)>>, <<>>, No, No),
      WellItem(<<>>, <<JStr(sR1)>>, Yes, Yes),
      WellItem(<<JStr(sA1)>>, <<JStr(sR2)>>, No, Yes),
      WellItem(<<JStr(sA1)>>, <<JNum(7)>>, <<JNum(1)>>, <<JNull>>),
      ItemSpec(<<>>, <<JStr(sb2)>>, <<JStr(sR1)>>, Yes, Yes),
      PlainItem }

ItemLists(specs, n) == UNION { [1..k -> specs] : k \in 0..n }

Payloads(specs, n) ==
    { PayloadOf(w, l) : w \in {"list", "dict"}, l \in ItemLists(specs, n) }

(***************************************************************************)
(* extract_scanner_results, one round of iter_decode_items at a time: the  *)
(* generator runs to its yield and the loop body handles the item          *)
(***************************************************************************)
ExtractStep ==
    /\ pc = "extract"
    /\ stack # <<>>
    /\ stack' = WalkStack(payload, stack)
    /\ LET y  == WalkYield(payload, stack)
           st == IF y = <<>> THEN [rack_id |-> rack_id, wells |-> wells]
                 ELSE ExtractItem(payload, y[1], [rack_id |-> rack_id, wells |-> wells])
       IN  /\ yielded' = yielded \o y
           /\ rack_id' = st.rack_id
           /\ wells' = st.wells
    /\ UNCHANGED <<pc, payload, extract_err, normalizeVars, layoutVars, fetchVars,
                   mainVars>>

\* the generator is exhausted: lines 240-246
ExtractFinish ==
    /\ pc = "extract"
    /\ stack = <<>>
    /\ IF ~rack_id.set
       THEN extract_err' = "no_rack_id" /\ exc' = "ValueError" /\ pc' = "raised"
       ELSE IF DOMAIN wells = {}
       THEN extract_err' = "no_wells" /\ exc' = "ValueError" /\ pc' = "raised"
       ELSE extract_err' = "none" /\ exc' = exc /\ pc' = "check_rack"
    /\ UNCHANGED <<payload, stack, yielded, rack_id, wells, normalizeVars,
                   layoutVars, fetchVars, stem, rows, written, warning, exit_code>>

InitExtract ==
    /\ pc = "extract"
    /\ payload \in Payloads(ExtractItemSpecs, MaxItems)
    /\ stack = <<1>>
    /\ yielded = <<>>
    /\ rack_id = NoRack
    /\ wells = NoWells
    /\ extract_err = "none"
    /\ IdleNormalize /\ IdleLayout /\ IdleFetch /\ IdleMain

NextExtract == ExtractStep \/ ExtractFinish

SpecExtract == InitExtract /\ [][NextExtract]_vars

(***************************************************************************)
(* iter_decode_items on every small document                               *)
(***************************************************************************)
WalkKeys == {"decode", "a"}

\* a document: the parent is a container, a dict
\* has no key twice, a list element has no key
WellFormed(t) ==
    \A id \in 1..Len(t) :
        /\ t[id].t \notin {"dict", "list"} => t[id].kids = <<>>
        /\ t[id].t = "list" => \A i \in 1..Len(t[id].kids) : t[id].kids[i].k = ""
        /\ t[id].t = "dict" =>
              \A i, j \in 1..Len(t[id].kids) :
                  /\ t[id].kids[i].k # ""
                  /\ i # j => t[id].kids[i].k # t[id].kids[j].k

RECURSIVE Trees(_)
Trees(n) ==
    IF n = 1 THEN {<<JDict>>, <<JList>>, <<JStr(sR1)>>}
    ELSE LET smaller == Trees(n - 1)
         IN  smaller \cup
             { t \in { AddChild(s, p, key, node) :
                         s \in {x \in smaller : Len(x) = n - 1},
                         p \in 1..(n - 1),
                         key \in WalkKeys \cup {""},
                         node \in {JDict, JList, JStr(sR1)} } : WellFormed(t) }

\* {"a":[{"decode":{"result":"X"},"itemType":1,"id":"B2"},{"foo":1}]}
ExampleDocument ==
    PayloadOf("dict", << WellItem(<<JStr(<<"B", "2">>)>>, <<JStr(<<"X">>)>>, <<>>, <<>>),
                         PlainItem >>)

InitWalk ==
    /\ pc = "extract"
    /\ payload \in Trees(MaxNodes) \cup {ExampleDocument}
    /\ stack = <<1>>
    /\ yielded = <<>>
    /\ rack_id = NoRack
    /\ wells = NoWells
    /\ extract_err = "none"
    /\ IdleNormalize /\ IdleLayout /\ IdleFetch /\ IdleMain

SpecWalk == InitWalk /\ [][NextExtract]_vars

(***************************************************************************)
(* build_output_rows on bounded layouts and scan results                   *)
(***************************************************************************)
RowPositions == {sA01, sA02, sB02}

ScanEntries ==
    [result : {sR1, <<>>}, hasTube : BOOLEAN, passed : BOOLEAN]

ScanData ==
    UNION { [ps -> ScanEntries] : ps \in SUBSET {sA01, sB02} }

EntryLists(n) == UNION { [1..k -> RowPositions \X {sS1, sS2}] : k \in 0..n }

InitRows ==
    /\ pc = "build_rows"
    /\ layout \in { [ok |-> TRUE, err |-> "none", entries |-> e] :
                      e \in EntryLists(MaxEntries) \ {<<>>} }
    /\ wells \in ScanData
    /\ csv_rows = <<>>
    /\ payload = <<>> /\ stack = <<>> /\ yielded = <<>> /\ rack_id = NoRack
    /\ extract_err = "none"
    /\ IdleNormalize /\ IdleFetch /\ IdleMain

MainBuildRows ==
    /\ pc = "build_rows"
    /\ rows' = build_output_rows(layout.entries, wells)
    /\ pc' = "write_output"
    /\ UNCHANGED <<normalizeVars, layoutVars, fetchVars, extractVars, stem, written,
                   warning, exc, exit_code>>

NextRows == MainBuildRows

SpecRows == InitRows /\ [][NextRows]_vars

(***************************************************************************)
(* main and the handlers of the __main__ block                             *)
(***************************************************************************)
OutputHeader == <<"Position", "SampleID", "ScannerResult", "Status">>

MainReadLayout ==
    /\ pc = "main"
    /\ layout' = read_layout(csv_rows)
    /\ IF layout'.ok
       THEN pc' = "load_payload" /\ exc' = exc
       ELSE pc' = "raised" /\ exc' = "ValueError"
    /\ UNCHANGED <<csv_rows, normalizeVars, fetchVars, extractVars, stem, rows,
                   written, warning, exit_code>>

\* lines 287-295: json_src tells whether --json-file was given and what
\* json.loads makes of the file; payload is the document the source holds
MainLoadPayload ==
    /\ pc = "load_payload"
    /\ IF json_src = "file"
       THEN fetched' = fetched /\ exc' = exc /\ pc' = "extract"
       ELSE IF json_src = "file_invalid"
       THEN fetched' = fetched /\ exc' = "JSONDecodeError" /\ pc' = "raised"
       ELSE /\ fetched' = fetch_payload(backend, net)
            /\ IF fetched'.ok
               THEN exc' = exc /\ pc' = "extract"
               ELSE exc' = fetched'.err[2] /\ pc' = "raised"
    /\ UNCHANGED <<backend, net, json_src, normalizeVars, layoutVars, extractVars,
                   stem, rows, written, warning, exit_code>>

MainCheckRack_accept ==
    /\ pc = "check_rack"
    /\ pc' = "build_rows" /\ exc' = exc
    /\ UNCHANGED <<normalizeVars, layoutVars, fetchVars, extractVars, stem, rows,
                   written, warning, exit_code>>

\* lines 299-303
MainCheckRack ==
    /\ pc = "check_rack"
    /\ IF rack_id.val # stem
       THEN pc' = "raised" /\ exc' = "RackMismatchError"
       ELSE pc' = "build_rows" /\ exc' = exc
    /\ UNCHANGED <<normalizeVars, layoutVars, fetchVars, extractVars, stem, rows,
                   written, warning, exit_code>>

MainWriteOutput ==
    /\ pc = "write_output"
    /\ written' = [called |-> TRUE, header |-> OutputHeader, rows |-> rows]
    /\ pc' = "warn"
    /\ UNCHANGED <<normalizeVars, layoutVars, fetchVars, extractVars, stem, rows,
                   warning, exc, exit_code>>

LayoutPositions(entries) == { entries[i][1] : i \in 1..Len(entries) }

MainWarn_unsorted ==
    /\ pc = "warn"
    /\ LET extra_positions == sorted_descending((DOMAIN wells) \ LayoutPositions(layout.entries))
       IN  warning' = [emitted |-> extra_positions # <<>>, positions |-> extra_positions]
    /\ pc' = "return"
    /\ UNCHANGED <<normalizeVars, layoutVars, fetchVars, extractVars, stem, rows,
                   written, exc, exit_code>>

\* lines 313-319
MainWarn ==
    /\ pc = "warn"
    /\ LET extra_positions == sorted((DOMAIN wells) \ LayoutPositions(layout.entries))
       IN  warning' = [emitted |-> extra_positions # <<>>, positions |-> extra_positions]
    /\ pc' = "return"
    /\ UNCHANGED <<normalizeVars, layoutVars, fetchVars, extractVars, stem, rows,
                   written, exc, exit_code>>

\* return 0, raised as SystemExit(0): neither except clause catches it
MainReturn ==
    /\ pc = "return"
    /\ exit_code' = 0
    /\ pc' = "exited"
    /\ UNCHANGED <<normalizeVars, layoutVars, fetchVars, extractVars, stem, rows,
                   written, warning, exc>>

ExitCodeFor_always_one(e) == 1

\* lines 330-335
ExitCodeFor(e) == IF e = "RackMismatchError" THEN 2 ELSE 1

MainHandler ==
    /\ pc = "raised"
    /\ exit_code' = ExitCodeFor(exc)
    /\ pc' = "exited"
    /\ UNCHANGED <<normalizeVars, layoutVars, fetchVars, extractVars, stem, rows,
                   written, warning, exc>>

MainRows ==
    { <<sA1>>,
      <<sA1, sS1>>,
      <<sA01, sS2>>,
      <<sb2, sS2>> }

MainItemSpecs ==
    { RackItem(<<JStr(sALT1)>>),
      RackItem(<<JStr(sALT2)>>),
      WellItem(<<JStr(sb2)>>, <<JStr(sR2)>>, No, Yes),
      WellItem(<<JStr(sA3)>>, <<JStr(sR1)>>, Yes, No) }

MainNetworks ==
    { [m \in Backends |-> IF m = "curl" THEN "ok" ELSE "ConnectionError"],
      [m \in Backends |-> IF m = "curl" THEN "ValueError" ELSE "RuntimeError"] }

InitMain ==
    /\ pc = "main"
    /\ csv_rows \in CsvFiles(MainRows, MainMaxRows)
    /\ layout = NoLayout
    /\ \/ json_src \in {"file", "file_invalid"} /\ backend = "auto" /\ net = NoNet
       \/ json_src = "fetch" /\ backend \in {"auto", "requests"} /\ net \in MainNetworks
    /\ fetched = NoFetch
    /\ payload \in { PayloadOf("list", l) : l \in ItemLists(MainItemSpecs, MainMaxItems) }
    /\ stack = <<1>>
    /\ yielded = <<>>
    /\ rack_id = NoRack
    /\ wells = NoWells
    /\ extract_err = "none"
    /\ stem = sALT1
    /\ rows = <<>>
    /\ written = NotWritten
    /\ warning = NoWarning
    /\ exc = "none"
    /\ exit_code = -1
    /\ IdleNormalize

Next ==
    \/ MainReadLayout
    \/ MainLoadPayload
    \/ ExtractStep
    \/ ExtractFinish
    \/ MainCheckRack
    \/ MainBuildRows
    \/ MainWriteOutput
    \/ MainWarn
    \/ MainReturn
    \/ MainHandler

Init == InitMain

Spec == Init /\ [][Next]_vars

(***************************************************************************)
(* Properties                                                              *)
(***************************************************************************)
Exited == pc = "exited"

\* --- exit codes --------------------------------------------------------

\* C1 (as stated): whenever the rack ID the run read from the payload differs
\* from the stem of the CSV file name, the run ends with exit code 2
C1_MismatchAlwaysExits2 ==
    (Exited /\ rack_id.set /\ rack_id.val # stem) => exit_code = 2

\* C1 (amended): a run ends with exit code 2 exactly when the layout loaded,
\* the payload was obtained, extraction found a rack ID and at least one well
\* entry, and that rack ID differs from the stem; a differing rack ID in a
\* payload without well entries ends with exit code 1
C1_MismatchExits2AfterExtraction ==
    Exited =>
        /\ exit_code = 2 <=>
              (rack_id.set /\ DOMAIN wells # {} /\ rack_id.val # stem)
        /\ (rack_id.set /\ DOMAIN wells = {}) => exit_code = 1

C1_Witness ==
    Exited /\ exit_code = 2 /\ rack_id.val = sALT2 /\ DOMAIN wells # {}

\* --- failures leave no output -----------------------------------------

NonBlankRows(csv) == { i \in 1..Len(csv) : csv[i] # <<>> }

LayoutLoads(csv) ==
    /\ NonBlankRows(csv) # {}
    /\ \A i \in NonBlankRows(csv) : Len(csv[i]) >= 2 /\ Strip(csv[i][1]) # <<>>
    /\ \A i, j \in NonBlankRows(csv) :
          normalize_position(csv[i][1]) = normalize_position(csv[j][1])
              => Strip(csv[i][2]) = Strip(csv[j][2])

PayloadObtained ==
    \/ json_src = "file"
    \/ /\ json_src = "fetch"
       /\ \E m \in Backends : net[m] = "ok" /\ backend \in {"auto", m}

DecodeNodes(tree) ==
    { id \in 1..Len(tree) :
        /\ tree[id].t = "dict"
        /\ \E i \in 1..Len(tree[id].kids) :
              /\ tree[id].kids[i].k = "decode"
              /\ tree[tree[id].kids[i].c].t = "dict" }

NodeResult(tree, id) == Get(tree, Get(tree, id, "decode"), "result")

\* decode nodes of type 2 with a non-empty result
RackNodes(tree) ==
    { id \in DecodeNodes(tree) :
        /\ EqualsInt(tree, Get(tree, id, "itemType"), 2)
        /\ Truthy(tree, NodeResult(tree, id)) }

NodeId(tree, id) ==
    IF Truthy(tree, Get(tree, id, "id")) THEN Strip(PyStr(tree, Get(tree, id, "id")))
    ELSE <<>>

\* decode nodes of type 1 with a non-empty result and a non-empty id
WellNodes(tree) ==
    { id \in DecodeNodes(tree) :
        /\ EqualsInt(tree, Get(tree, id, "itemType"), 1)
        /\ Truthy(tree, NodeResult(tree, id))
        /\ NodeId(tree, id) # <<>> }

AllChecksPass ==
    /\ LayoutLoads(csv_rows)
    /\ PayloadObtained
    /\ RackNodes(payload) # {}
    /\ WellNodes(payload) # {}
    /\ rack_id.set /\ rack_id.val = stem

\* C2: write_output is called only in runs in which the layout loaded, the
\* payload was obtained, a rack ID and well data were found and the rack ID
\* matched; every other run exits with a non-zero code without having called it
C2_FailuresLeaveNoOutput ==
    /\ written.called => AllChecksPass
    /\ Exited => IF AllChecksPass
                 THEN exit_code = 0 /\ written.called
                 ELSE exit_code \in {1, 2} /\ ~written.called

C2_Witness ==
    /\ Exited /\ exit_code = 1 /\ ~written.called
    /\ layout.ok /\ extract_err = "no_wells"

\* --- read_layout -------------------------------------------------------

\* C3: a layout that loads holds at most one entry per normalized position
C3_OneEntryPerPosition ==
    (pc = "layout_read" /\ layout.ok) =>
        \A i, j \in 1..Len(layout.entries) :
            layout.entries[i][1] = layout.entries[j][1] => i = j

\* --- normalize_position ------------------------------------------------

IsAsciiLetter(c) ==
    \E i \in 1..26 : c = LowerChars[i] \/ c = UpperChars[i]

\* letters followed by digits: the number of leading letters, 0 if not of that shape
LetterCount(t) ==
    IF \E k \in 1..(Len(t) - 1) :
           /\ \A i \in 1..k : IsAsciiLetter(t[i])
           /\ \A i \in (k + 1)..Len(t) : t[i] \in DigitChars
    THEN CHOOSE k \in 1..(Len(t) - 1) :
           /\ \A i \in 1..k : IsAsciiLetter(t[i])
           /\ \A i \in (k + 1)..Len(t) : t[i] \in DigitChars
    ELSE 0

PadTwo(d) == IF Len(d) = 1 THEN <<"0", d[1]>> ELSE d

RECURSIVE DropLeadingZeros(_)
DropLeadingZeros(d) ==
    IF Len(d) > 1 /\ d[1] = "0" THEN DropLeadingZeros(Tail(d)) ELSE d

\* C4 (as stated): letters then digits give the upper-cased letters and the
\* digits zero-padded to two places; any other token comes back trimmed and
\* upper-cased
C4_PadsDigitsToTwo ==
    pc = "normalized" =>
        LET t == Strip(raw)
            k == LetterCount(t)
        IN  IF k = 0 THEN np_result = Upper(t)
            ELSE np_result = Upper(SubSeq(t, 1, k)) \o PadTwo(SubSeq(t, k + 1, Len(t)))

\* C4 (amended): letters then digits give the upper-cased letters and the
\* digits without their leading zeros (one digit at least is kept),
\* zero-padded to two places; any other token comes back trimmed and
\* upper-cased; "A1", "a01", "A01" give "A01" and "H12" stays "H12"
C4_StripsZerosThenPads ==
    pc = "normalized" =>
        LET t == Strip(raw)
            k == LetterCount(t)
        IN  /\ IF k = 0 THEN np_result = Upper(t)
               ELSE np_result = Upper(SubSeq(t, 1, k))
                                \o PadTwo(DropLeadingZeros(SubSeq(t, k + 1, Len(t))))
            /\ raw \in {sA1, sa01, sA01} => np_result = sA01
            /\ raw = <<"H", "1", "2">> => np_result = <<"H", "1", "2">>

C4_Witness ==
    pc = "normalized" /\ raw = <<"a", "0", "0", "1">> /\ np_result = sA01

\* --- iter_decode_items --------------------------------------------------

NoDuplicates(q) == \A i, j \in 1..Len(q) : q[i] = q[j] => i = j

Range(q) == { q[i] : i \in 1..Len(q) }

RECURSIVE SubtreeSize(_, _)
SubtreeSize(tree, id) ==
    LET RECURSIVE Sum(_)
        Sum(i) == IF i > Len(tree[id].kids) THEN 0
                  ELSE SubtreeSize(tree, tree[id].kids[i].c) + Sum(i + 1)
    IN  1 + Sum(1)

\* the nodes the walk has still to pop: those on the stack and below them
RECURSIVE Remaining(_, _)
Remaining(tree, stk) ==
    IF stk = <<>> THEN 0
    ELSE SubtreeSize(tree, Head(stk)) + Remaining(tree, Tail(stk))

\* C5: the walk ends (every round of the loop leaves fewer nodes to pop, and
\* the loop is left when none is left); it never yields a node twice or a
\* node that is not a mapping with a mapping under "decode", and when it
\* ends it has yielded every such node, nested ones included; on the
\* document of section 8 it has yielded one node
C5_WalkYieldsDecodeNodes ==
    [][ pc = "extract" =>
          /\ stack # <<>> =>
                /\ pc' = "extract"
                /\ Remaining(payload, stack') < Remaining(payload, stack)
          /\ NoDuplicates(yielded')
          /\ Range(yielded') \subseteq DecodeNodes(payload)
          /\ stack = <<>> =>
                /\ pc' # "extract"
                /\ Range(yielded) = DecodeNodes(payload)
                /\ payload = ExampleDocument => Len(yielded) = 1 ]_vars

\* a decode node inside the decode member of a decode node, both yielded
C5_Witness ==
    /\ pc # "extract"
    /\ \E i, j \in 1..Len(yielded) :
          Get(payload, Get(payload, yielded[i], "decode"), "decode") # 0
          /\ yielded[j] = Get(payload, yielded[i], "decode")

\* --- extract_scanner_results -------------------------------------------

ExtractionOver == pc \in {"check_rack", "raised"} /\ stack = <<>>

Type1Nodes(tree) ==
    { id \in DecodeNodes(tree) : EqualsInt(tree, Get(tree, id, "itemType"), 1) }

NodeKey(tree, id) == normalize_position(NodeId(tree, id))

\* the place of a node in the order of the yields
YieldIndex(id) == CHOOSE i \in 1..Len(yielded) : yielded[i] = id

FlagOf(tree, id, key) ==
    LET decode == Get(tree, id, "decode")
    IN  HasKey(tree, decode, key) /\ Truthy(tree, Get(tree, decode, key))

\* C6 (as stated): every type-1 decode node with a non-empty id has a well
\* entry under its normalized id
C6_EveryType1NodeWithIdRecorded ==
    ExtractionOver =>
        \A id \in Type1Nodes(payload) :
            NodeId(payload, id) # <<>> => NodeKey(payload, id) \in DOMAIN wells

\* C6 (amended): the type-1 decode nodes that get a well entry are those with
\* a non-empty result and a non-empty id; the entry is keyed by the
\* normalized id and holds the result text and the hasTube and passed flags
\* (false when absent) of the last such node yielded for that position;
\* type-1 nodes without a result or without an id are skipped
C6_Type1NodesWithResultAndIdRecorded ==
    ExtractionOver =>
        /\ DOMAIN wells = { NodeKey(payload, id) : id \in WellNodes(payload) }
        /\ \A id \in WellNodes(payload) :
              (\A other \in WellNodes(payload) :
                   NodeKey(payload, other) = NodeKey(payload, id)
                       => YieldIndex(other) <= YieldIndex(id))
              => LET entry == wells[NodeKey(payload, id)]
                 IN  /\ entry.result = Strip(PyStr(payload, NodeResult(payload, id)))
                     /\ entry.hasTube = FlagOf(payload, id, "hasTube")
                     /\ entry.passed = FlagOf(payload, id, "passed")

\* a recorded node without flags next to a type-1 node skipped for want of a result
C6_Witness ==
    /\ ExtractionOver
    /\ \E id \in WellNodes(payload) :
          /\ ~HasKey(payload, Get(payload, id, "decode"), "hasTube")
          /\ ~wells[NodeKey(payload, id)].hasTube
    /\ \E id \in Type1Nodes(payload) \ WellNodes(payload) :
          NodeId(payload, id) # <<>> /\ NodeKey(payload, id) \notin DOMAIN wells

Type2Yields ==
    { i \in 1..Len(yielded) : EqualsInt(payload, Get(payload, yielded[i], "itemType"), 2) }

RackYields == { i \in 1..Len(yielded) : yielded[i] \in RackNodes(payload) }

Least(S) == CHOOSE i \in S : \A j \in S : i <= j

\* C7 (as stated): the rack ID is that of the first type-2 decode node yielded
C7_FirstType2NodeSuppliesRack ==
    Type2Yields # {} =>
        LET first == yielded[Least(Type2Yields)]
        IN  /\ rack_id.set
            /\ NodeResult(payload, first) # 0
            /\ rack_id.val = Strip(PyStr(payload, NodeResult(payload, first)))

\* C7 (amended): the rack ID is that of the first type-2 decode node yielded
\* that has a non-empty result, and of that node only: it is unset until
\* such a node is yielded and never changes afterwards; extraction fails
\* when the payload has no such node or no well entries
C7_FirstType2NodeWithResultSuppliesRack ==
    /\ IF RackYields = {} THEN rack_id = NoRack
       ELSE LET first == yielded[Least(RackYields)]
            IN  rack_id = [set |-> TRUE,
                           val |-> Strip(PyStr(payload, NodeResult(payload, first)))]
    /\ ExtractionOver =>
          /\ pc = "raised" <=> (RackNodes(payload) = {} \/ WellNodes(payload) = {})
          /\ extract_err = "no_rack_id" <=> RackNodes(payload) = {}
          /\ pc = "raised" <=> extract_err # "none"

\* two type-2 nodes with different results were yielded and extraction succeeded
C7_Witness ==
    /\ pc = "check_rack"
    /\ \E i, j \in RackYields :
          /\ i < j
          /\ PyStr(payload, NodeResult(payload, yielded[i]))
                 # PyStr(payload, NodeResult(payload, yielded[j]))

\* --- build_output_rows --------------------------------------------------

sEmptyDecodeFailed ==
    <<"e", "m", "p", "t", "y", ",", "d", "e", "c", "o", "d", "e", "_", "f", "a", "i",
      "l", "e", "d">>

\* C8: one row per layout entry, in layout order, with the entry's position
\* and sample ID; "no_scan" and an empty result when the position was not
\* scanned, else the scan's result and "ok", "empty", "decode_failed" or
\* "empty,decode_failed" according to hasTube and passed
C8_OneRowPerEntry ==
    pc = "write_output" =>
        /\ Len(rows) = Len(layout.entries)
        /\ \A i \in 1..Len(rows) :
              LET position == layout.entries[i][1]
              IN  /\ rows[i][1] = position
                  /\ rows[i][2] = layout.entries[i][2]
                  /\ IF position \notin DOMAIN wells
                     THEN rows[i][3] = <<>> /\ rows[i][4] = <<"n", "o", "_", "s", "c", "a", "n">>
                     ELSE /\ rows[i][3] = wells[position].result
                          /\ rows[i][4] =
                               IF wells[position].hasTube /\ wells[position].passed
                               THEN <<"o", "k">>
                               ELSE IF wells[position].passed
                               THEN <<"e", "m", "p", "t", "y">>
                               ELSE IF wells[position].hasTube
                               THEN <<"d", "e", "c", "o", "d", "e", "_", "f", "a", "i",
                                      "l", "e", "d">>
                               ELSE sEmptyDecodeFailed

C8_Witness ==
    /\ pc = "write_output"
    /\ \E i, j \in 1..Len(rows) :
          /\ rows[i][4] = <<"e", "m", "p", "t", "y">>
          /\ rows[j][4] = <<"n", "o", "_", "s", "c", "a", "n">>

\* --- the warning about extra positions ----------------------------------

ExtraPositions ==
    { p \in DOMAIN wells : \A i \in 1..Len(layout.entries) : layout.entries[i][1] # p }

\* C9: after a successful run the warning lists the scanned positions that
\* are in no layout entry, each once, in sorted order; it is emitted exactly
\* when there is such a position; the output is written and the exit code is 0
\* whether or not it is emitted
C9_WarningListsExtraPositions ==
    /\ (Exited /\ exit_code = 0) =>
          /\ warning.emitted <=> ExtraPositions # {}
          /\ Range(warning.positions) = ExtraPositions
          /\ NoDuplicates(warning.positions)
          /\ \A i, j \in 1..Len(warning.positions) :
                i < j => StrLess(warning.positions[i], warning.positions[j])
          /\ written.called /\ written.rows = rows
    /\ (Exited /\ warning.emitted) => exit_code = 0

C9_Witness ==
    Exited /\ exit_code = 0 /\ warning.emitted /\ Len(warning.positions) >= 2

\* --- fetch_payload ------------------------------------------------------

Priority(b) == IF b = "auto" THEN <<"requests", "urllib", "curl">> ELSE <<b>>

====
